---- MODULE Spec2Model ----
(***************************************************************************)
(* License authority of Togree/TCP-Licencing-System.                       *)
(*                                                                         *)
(* The repository holds two deployments of the same lifecycle:             *)
(*   - the standalone server  src/licence.py  (sqlite table "licenses",    *)
(*     timestamps stored as text);                                         *)
(*   - the Django project: src/licenses/utils.py (library functions) and   *)
(*     src/licenses/views.py (LicenseViewSet), both over the License       *)
(*     model of src/licenses/models.py (timestamps stored as datetimes).   *)
(* A behaviour runs one deployment (deploy), chosen in Init.               *)
(*                                                                         *)
(* Time is counted in clock ticks; TicksPerSec ticks make a second and     *)
(* DaySecs seconds make a day (a scaled calendar).  strftime with          *)
(* "%Y-%m-%d %H:%M:%S" keeps whole seconds only.                           *)
(*                                                                         *)
(* A behaviour starts on a fresh installation: no key files, no rows, the  *)
(* process not started.  The process may stop and start again; the key     *)
(* files and the table outlive it.  In Spec nothing but the program        *)
(* touches the key files; SpecFault lets them be damaged while the         *)
(* process is down.  The Django project stores aware datetimes (USE_TZ):   *)
(* a DateTimeField read back is the same instant in UTC.                   *)
(***************************************************************************)
EXTENDS Integers, Sequences, FiniteSets, TLC

VARIABLES deploy, now, db, tampered, last, keys, conc, enc

vars == <<deploy, now, db, tampered, last, keys, conc, enc>>

---------------------------------------------------------------------------
(* Bounds of the model *)

TicksPerSec == 2
DaySecs == 1
MaxTime == 4
MaxDays == 1
MaxExp == 8
MaxGen == 2

Clients == {"c1"}
LicenseTypes == {"Basic", "Premium"}
Durations == 0..MaxDays

Day == DaySecs * TicksPerSec

---------------------------------------------------------------------------
(* Timestamps and their text *)

\* a datetime: the instant v (ticks, UTC) seen at UTC offset off (ticks)
Dt(v, off) == [k |-> "dt", v |-> v, off |-> off]
None == [k |-> "none", v |-> 0, off |-> 0]

\* text of a timestamp "%Y-%m-%d %H:%M:%S": whole seconds
Ts(s) == [k |-> "ts", v |-> s]
Never == [k |-> "never", v |-> 0]

\* datetime.strftime("%Y-%m-%d %H:%M:%S"): the wall clock of the datetime's
\* own offset, sub-second part dropped
Strftime(dt) == Ts((dt.v + dt.off) \div TicksPerSec)

\* datetime.strptime(text, "%Y-%m-%d %H:%M:%S"): a naive datetime, microsecond 0
Strptime(txt) == Dt(txt.v * TicksPerSec, 0)

\* datetime + timedelta(days=d)
PlusDays(dt, d) == Dt(dt.v + d * Day, dt.off)

\* DateTimeField written to and read back from the database (USE_TZ): the
\* instant is kept, the offset is normalised to UTC
DbDatetime(dt) == IF dt = None THEN None ELSE Dt(dt.v, 0)

\* the offsets an ISO 8601 exp may carry: Z / +00:00, or one second east
Offsets == {0, TicksPerSec}

\* an ISO 8601 text: the wall clock wall (ticks) at UTC offset off
Iso(wall, off) == [k |-> "iso", wall |-> wall, off |-> off]

\* exp not given (None)
NoExp == [k |-> "none", wall |-> 0, off |-> 0]

\* exp arguments of the Django issue paths: absent, or the instant MaxTime
\* written at one of the offsets
ExpArgs == {NoExp} \cup {Iso(MaxTime + off, off) : off \in Offsets}

\* datetime.fromisoformat(exp.replace("Z", "+00:00")): an aware datetime that
\* keeps the offset of the text
FromIsoFormat(exp) == Dt(exp.wall - exp.off, exp.off)

---------------------------------------------------------------------------
(* Signing *)

\* Key material.  A keypair is named by the number of the rsa.newkeys call
\* that made it (1, 2, ...); a key file holds a key, is absent, or is damaged.
NoFile == 0
Corrupt == -1

\* keys: the two key files (priv, pub), the module-level private_key and
\* public_key of the running licence.py process (mpriv, mpub), whether the
\* process is up (running), and the number of rsa.newkeys calls so far (gen)
KeyState(priv, pub, mpriv, mpub, running, gen) ==
    [priv |-> priv, pub |-> pub, mpriv |-> mpriv, mpub |-> mpub,
     running |-> running, gen |-> gen]

\* "not os.path.exists(private) or not os.path.exists(public)" that always holds
KeysMissing_Always(k) == TRUE

\* not os.path.exists(private) or not os.path.exists(public)
KeysMissing(k) == k.priv = NoFile \/ k.pub = NoFile

\* rsa.PrivateKey.load_pkcs1 / rsa.PublicKey.load_pkcs1 of the files raises
LoadPkcs1Raises(k) == k.priv = Corrupt \/ k.pub = Corrupt

\* utils.load_rsa_keys() raises: FileNotFoundError, or the error of load_pkcs1
LoadRsaKeysRaises(k) == KeysMissing(k) \/ LoadPkcs1Raises(k)

\* the keypair in use: the module-level keys of licence.py, the keys that
\* load_rsa_keys() reads from the files at each call of the Django project
private_key == IF deploy = "standalone" THEN keys.mpriv ELSE keys.priv
public_key == IF deploy = "standalone" THEN keys.mpub ELSE keys.pub

\* the keys of license_data, and their place in sorted (code point) order
Keys == {"client_id", "license_type", "issued_at", "exp"}
KeyRank == [client_id |-> 1, exp |-> 2, issued_at |-> 3, license_type |-> 4]

\* a dict: its keys in insertion order, and their values
Dict(order, client_id, license_type, issued_at, exp) ==
    [order |-> order, client_id |-> client_id, license_type |-> license_type,
     issued_at |-> issued_at, exp |-> exp]

\* the order of the keys in the license_data = {...} literals
LiteralOrder == <<"client_id", "license_type", "issued_at", "exp">>

\* the keys of a dict of all four keys, sorted
SortKeys(order) ==
    [i \in 1..Len(order) |-> CHOOSE k \in Keys : KeyRank[k] = i]

\* json.dumps(d): the items in insertion order, default separators
Dumps(d) ==
    [enc |-> "default", order |-> d.order, client_id |-> d.client_id,
     license_type |-> d.license_type, issued_at |-> d.issued_at, exp |-> d.exp]

\* json.dumps(d, separators=(',', ':'), sort_keys=True): the items in sorted
\* key order, compact separators
DumpsSorted(d) ==
    [enc |-> "sorted", order |-> SortKeys(d.order), client_id |-> d.client_id,
     license_type |-> d.license_type, issued_at |-> d.issued_at, exp |-> d.exp]

\* json.dumps(license_data) of licence.py
JsonDumps(client_id, license_type, issued_at, exp) ==
    Dumps(Dict(LiteralOrder, client_id, license_type, issued_at, exp))

\* json.dumps(license_data, separators=(',', ':'), sort_keys=True) of the
\* Django project
JsonDumpsSorted(client_id, license_type, issued_at, exp) ==
    DumpsSorted(Dict(LiteralOrder, client_id, license_type, issued_at, exp))

NoMessage == [enc |-> "", order |-> <<>>, client_id |-> "", license_type |-> "",
              issued_at |-> Never, exp |-> Never]

\* rsa.sign(message, private_key, "SHA-256"): PKCS#1 v1.5 is deterministic, the
\* signature bytes are determined by the key and the message
RsaSign(message, key) == [key |-> key, msg |-> message]

\* rsa.verify(message, signature, public_key): TRUE, or VerificationError (FALSE)
RsaVerify(message, signature, key) == signature = [key |-> key, msg |-> message]

\* bytes.hex(): lower-case hex text
Hex(bytes) == [bytes |-> bytes, form |-> "lower"]

\* bytes that no key signed
NoBytes == [key |-> 0, msg |-> NoMessage]

\* a string that is no hex text
Garbage == [bytes |-> NoBytes, form |-> "nothex"]

\* hex digits of odd count
OddLength == [bytes |-> NoBytes, form |-> "oddlen"]

\* the empty string: hex text of no bytes
Empty == [bytes |-> NoBytes, form |-> "empty"]

\* the same hex digits in upper case
Upper(s) == IF s.form = "lower" THEN [s EXCEPT !.form = "upper"] ELSE s

\* bytes.fromhex(s) accepts both cases of a hex digit and the empty string;
\* ValueError for a non-hex character and for an odd number of digits
FromHexRaises(s) == s.form \in {"nothex", "oddlen"}
FromHex(s) == s.bytes

---------------------------------------------------------------------------
(* The record of the last call: what was called (op, impl), with what      *)
(* (c, sig, d, exp), what it returned (res), the status of the client's    *)
(* row                                                                     *)
(* before the call (was: "" when there was no row) and, for a              *)
(* verification, what the call just before it did to the same client       *)
(* (after).                                                                *)

Was(tbl, c) == IF c \in DOMAIN tbl THEN tbl[c].status ELSE ""

\* the body of a POST: a form (action, client_id, license_type, duration_days,
\* additional_days) or a JSON object (client_id, signature)
Body(kind, action, client_id, license_type, duration_days, additional_days, signature) ==
    [kind |-> kind, action |-> action, client_id |-> client_id,
     license_type |-> license_type, duration_days |-> duration_days,
     additional_days |-> additional_days, signature |-> signature]

NoBody == Body("", "", "", "", 0, 0, Garbage)

Call(op, impl, c, sig, d, res, was, after) ==
    [op |-> op, impl |-> impl, c |-> c, sig |-> sig, d |-> d, res |-> res,
     was |-> was, after |-> after, exp |-> NoExp, path |-> "", body |-> NoBody]

\* the record of a call made for a POST to path with the body
Post(path, body, call) == [call EXCEPT !.path = path, !.body = body]

\* the record of an issue call: its duration_days (d) and exp arguments
IssueCall(impl, c, d, exp, res, was) ==
    [Call("issue", impl, c, Garbage, d, res, was, "") EXCEPT !.exp = exp]

\* what the call l did to client c, as a verification that follows it sees it
After(l, c) ==
    IF l.c # c THEN ""
    ELSE IF l.op = "issue" /\ l.res = "created" THEN "issued"
    ELSE IF l.op = "reactivate" /\ l.d > 0 /\ l.was = "revoked" THEN "reactivated"
    ELSE IF l.op = "tamper" THEN "tampered"
    ELSE ""

\* a well-formed signature of some other message
Other == Hex(RsaSign(NoMessage, private_key))

\* the signatures a caller may present: those in the table, their upper-case
\* spelling, a signature of something else, a string that is no hex text, hex
\* digits of odd count and the empty string
Presented(tbl) ==
    {tbl[c].signature : c \in DOMAIN tbl}
        \cup {Upper(tbl[c].signature) : c \in DOMAIN tbl}
        \cup {Other, Garbage, OddLength, Empty}

---------------------------------------------------------------------------
(* src/licence.py: the standalone server *)

\* expiration_date of generate_license
S_expiration_date(license_type, issued_at, duration_days) ==
    IF license_type = "Premium" THEN None ELSE PlusDays(issued_at, duration_days)

\* license_data of generate_license: the four signed texts
S_license_data(client_id, license_type, issued_at, expiration_date) ==
    JsonDumps(client_id, license_type, Strftime(issued_at),
              IF expiration_date = None THEN Never ELSE Strftime(expiration_date))

\* the row generate_license inserts
S_row(client_id, license_type, issued_at, duration_days) ==
    LET license_data == S_license_data(client_id, license_type, issued_at,
                            S_expiration_date(license_type, issued_at, duration_days))
    IN  [license_type |-> license_type,
         issued_at |-> license_data.issued_at,
         exp |-> license_data.exp,
         signature |-> Hex(RsaSign(license_data, private_key)),
         status |-> "active"]

\* the expiry test of validate_license
S_expired(license, t) ==
    /\ license.license_type # "Premium"
    /\ license.exp # Never
    /\ t > Strptime(license.exp).v

\* validate_license with the expiry test ahead of the revocation test
S_validate_license_ExpiryFirst(tbl, client_id, provided_signature, t) ==
    IF client_id \notin DOMAIN tbl THEN "not_found"
    ELSE LET license == tbl[client_id]
             license_json == JsonDumps(client_id, license.license_type,
                                       license.issued_at, license.exp)
         IN  IF S_expired(license, t) THEN "expired"
             ELSE IF license.status = "revoked" THEN "revoked"
             ELSE IF provided_signature # license.signature THEN "mismatch"
             ELSE IF FromHexRaises(provided_signature) THEN "raise_ValueError"
             ELSE IF RsaVerify(license_json, FromHex(provided_signature), public_key)
                  THEN "valid"
                  ELSE "invalid"

\* validate_license: the message returned
S_validate_license(tbl, client_id, provided_signature, t) ==
    IF client_id \notin DOMAIN tbl THEN "not_found"
    ELSE LET license == tbl[client_id]
             license_json == JsonDumps(client_id, license.license_type,
                                       license.issued_at, license.exp)
         IN  IF license.status = "revoked" THEN "revoked"
             ELSE IF S_expired(license, t) THEN "expired"
             ELSE IF provided_signature # license.signature THEN "mismatch"
             ELSE IF FromHexRaises(provided_signature) THEN "raise_ValueError"
             ELSE IF RsaVerify(license_json, FromHex(provided_signature), public_key)
                  THEN "valid"
                  ELSE "invalid"

\* new_exp_str of reactivate_license
S_new_exp_str(exp_date, additional_days) ==
    Strftime(PlusDays(Strptime(exp_date), additional_days))

\* reactivate_license: the message returned
S_reactivate_result(tbl, client_id) ==
    IF client_id \notin DOMAIN tbl THEN "not_found"
    ELSE IF tbl[client_id].license_type = "Premium" THEN "premium"
    ELSE IF tbl[client_id].exp = Never THEN "no_expiration"
    ELSE "reactivated"

\* a revoke_license whose UPDATE has no WHERE clause
S_revoke_table_NoWhere(tbl, c) ==
    [x \in DOMAIN tbl |-> [tbl[x] EXCEPT !.status = "revoked"]]

\* the table after revoke_license: the UPDATE matches the row or nothing
S_revoke_table(tbl, c) ==
    IF c \in DOMAIN tbl THEN [tbl EXCEPT ![c].status = "revoked"] ELSE tbl

\* the table after reactivate_license
S_reactivate_table(tbl, c, d) ==
    IF S_reactivate_result(tbl, c) = "reactivated"
    THEN [tbl EXCEPT ![c].exp = S_new_exp_str(tbl[c].exp, d), ![c].status = "active"]
    ELSE tbl

S_generate(c, ty, d) ==
    /\ deploy = "standalone"
    /\ keys.running
    /\ db' = IF c \in DOMAIN db THEN db ELSE (c :> S_row(c, ty, Dt(now, 0), d)) @@ db
    /\ last' = IssueCall("licence", c, d, NoExp,
                         IF c \in DOMAIN db THEN "exists" ELSE "created",
                         Was(db, c))
    /\ UNCHANGED <<deploy, now, tampered, keys, conc, enc>>

S_revoke(c) ==
    /\ deploy = "standalone"
    /\ keys.running
    /\ db' = S_revoke_table(db, c)
    /\ last' = Call("revoke", "licence", c, Garbage, 0, "revoked_ok", Was(db, c), "")
    /\ UNCHANGED <<deploy, now, tampered, keys, conc, enc>>

\* a validate_license that writes the status "expired" when it finds the
\* license expired
S_validate_MarksExpired(c, s) ==
    /\ deploy = "standalone"
    /\ keys.running
    /\ db' = IF S_validate_license(db, c, s, now) = "expired"
             THEN [db EXCEPT ![c].status = "expired"] ELSE db
    /\ last' = Call("verify", "licence", c, s, 0, S_validate_license(db, c, s, now),
                    Was(db, c), After(last, c))
    /\ UNCHANGED <<deploy, now, tampered, keys, conc, enc>>

S_validate(c, s) ==
    /\ deploy = "standalone"
    /\ keys.running
    /\ last' = Call("verify", "licence", c, s, 0, S_validate_license(db, c, s, now),
                    Was(db, c), After(last, c))
    /\ UNCHANGED <<deploy, now, db, tampered, keys, conc, enc>>

S_reactivate(c, d) ==
    /\ deploy = "standalone"
    /\ keys.running
    /\ LET res == S_reactivate_result(db, c)
       IN  /\ res = "reactivated" =>
                  Strptime(S_new_exp_str(db[c].exp, d)).v <= MaxExp
           /\ db' = S_reactivate_table(db, c, d)
           /\ last' = Call("reactivate", "licence", c, Garbage, d, res, Was(db, c), "")
    /\ UNCHANGED <<deploy, now, tampered, keys, conc, enc>>

S_list ==
    /\ deploy = "standalone"
    /\ keys.running
    /\ last' = Call("list", "licence", "", Garbage, 0, "rows", "", "")
    /\ UNCHANGED <<deploy, now, db, tampered, keys, conc, enc>>

\* the default of duration_days and additional_days in do_POST
DefaultDays == 30

\* parse_qs of the body and the data.get calls of do_POST: the fields of a
\* form; a JSON object has no name=value pair, so every field is its default
ParseQs(body) ==
    IF body.kind = "form"
    THEN [action |-> body.action, client_id |-> body.client_id,
          license_type |-> body.license_type,
          duration_days |-> body.duration_days,
          additional_days |-> body.additional_days]
    ELSE [action |-> "", client_id |-> "", license_type |-> "",
          duration_days |-> DefaultDays, additional_days |-> DefaultDays]

\* RequestHandler.do_POST: the class body defines do_POST twice and the
\* second definition is the method; it does not look at the path
S_do_POST(path, body) ==
    LET data == ParseQs(body)
        action == data.action
        client_id == data.client_id
    IN  /\ deploy = "standalone"
        /\ keys.running
        /\ \/ /\ action = "generate"
              /\ db' = IF client_id \in DOMAIN db THEN db
                        ELSE (client_id :> S_row(client_id, data.license_type,
                                                 Dt(now, 0), data.duration_days)) @@ db
              /\ last' = Post(path, body,
                              IssueCall("licence", client_id, data.duration_days, NoExp,
                                        IF client_id \in DOMAIN db THEN "exists"
                                                                   ELSE "created",
                                        Was(db, client_id)))
           \/ /\ action = "revoke"
              /\ db' = S_revoke_table(db, client_id)
              /\ last' = Post(path, body,
                              Call("revoke", "licence", client_id, Garbage, 0,
                                   "revoked_ok", Was(db, client_id), ""))
           \/ /\ action = "reactivate"
              /\ S_reactivate_result(db, client_id) = "reactivated" =>
                     Strptime(S_new_exp_str(db[client_id].exp,
                                            data.additional_days)).v <= MaxExp
              /\ db' = S_reactivate_table(db, client_id, data.additional_days)
              /\ last' = Post(path, body,
                              Call("reactivate", "licence", client_id, Garbage,
                                   data.additional_days,
                                   S_reactivate_result(db, client_id),
                                   Was(db, client_id), ""))
           \/ /\ action \notin {"generate", "revoke", "reactivate"}
              /\ db' = db
              /\ last' = Post(path, body,
                              Call("post", "licence", client_id, Garbage, 0,
                                   "invalid_action", "", ""))
        /\ UNCHANGED <<deploy, now, tampered, keys, conc, enc>>

---------------------------------------------------------------------------
(* src/licenses/utils.py and src/licenses/views.py: the Django project *)

\* duration_days not given (None)
NoDuration == MaxDays + 1
DurationArgs == Durations \cup {NoDuration}

\* expiration_date of utils.generate_license
U_expiration_date(exp, duration_days, issued_at) ==
    IF exp # NoExp THEN FromIsoFormat(exp)
    ELSE IF duration_days # NoDuration THEN PlusDays(issued_at, duration_days)
    ELSE None

\* expiration_date of LicenseViewSet.create: "elif duration_days:" skips 0
V_expiration_date(exp, duration_days, t) ==
    IF exp # NoExp THEN FromIsoFormat(exp)
    ELSE IF duration_days # NoDuration /\ duration_days # 0
         THEN PlusDays(Dt(t, 0), duration_days)
    ELSE None

\* license_json signed at issuance (utils.generate_license, LicenseViewSet.create)
U_license_json(client_id, license_type, issued_at, expiration_date) ==
    JsonDumpsSorted(client_id, license_type, Strftime(issued_at),
                    IF expiration_date # None THEN Strftime(expiration_date) ELSE Never)

\* the License row the issue paths save
U_row(client_id, license_type, issued_at, expiration_date) ==
    [license_type |-> license_type,
     issued_at |-> DbDatetime(issued_at),
     exp |-> DbDatetime(expiration_date),
     signature |-> Hex(RsaSign(U_license_json(client_id, license_type, issued_at,
                                              expiration_date), private_key)),
     status |-> "active"]

\* License.objects.update_or_create(client_id=..., defaults=...)
UpdateOrCreate(tbl, client_id, row) ==
    IF client_id \in DOMAIN tbl THEN [tbl EXCEPT ![client_id] = row]
    ELSE (client_id :> row) @@ tbl

\* the expiry test of utils.verify_license without the Premium exemption
U_expired_AnyType(license_obj, t) ==
    /\ license_obj.exp # None
    /\ t > license_obj.exp.v

\* the expiry test of utils.verify_license
U_expired(license_obj, t) ==
    /\ license_obj.license_type # "Premium"
    /\ license_obj.exp # None
    /\ t > license_obj.exp.v

\* utils.verify_license without its outer try/except
U_verify_license_NoCatch(tbl, client_id, provided_signature, t) ==
    IF LoadRsaKeysRaises(keys) THEN "raise_load_rsa_keys"
    ELSE IF client_id \notin DOMAIN tbl THEN "not_found"
    ELSE LET license_obj == tbl[client_id]
             license_json ==
                 JsonDumpsSorted(client_id, license_obj.license_type,
                                 Strftime(license_obj.issued_at),
                                 IF license_obj.exp # None
                                 THEN Strftime(license_obj.exp) ELSE Never)
         IN  IF license_obj.status = "revoked" THEN "revoked"
             ELSE IF U_expired(license_obj, t) THEN "expired"
             ELSE IF FromHexRaises(provided_signature) THEN "raise_ValueError"
             ELSE IF RsaVerify(license_json, FromHex(provided_signature), public_key)
                  THEN "valid"
                  ELSE "invalid"

\* utils.verify_license: the message returned
U_verify_license(tbl, client_id, provided_signature, t) ==
    IF LoadRsaKeysRaises(keys) THEN "failed"
    ELSE IF client_id \notin DOMAIN tbl THEN "not_found"
    ELSE LET license_obj == tbl[client_id]
             license_json ==
                 JsonDumpsSorted(client_id, license_obj.license_type,
                                 Strftime(license_obj.issued_at),
                                 IF license_obj.exp # None
                                 THEN Strftime(license_obj.exp) ELSE Never)
         IN  IF license_obj.status = "revoked" THEN "revoked"
             ELSE IF U_expired(license_obj, t) THEN "expired"
             ELSE IF FromHexRaises(provided_signature) THEN "failed"
             ELSE IF RsaVerify(license_json, FromHex(provided_signature), public_key)
                  THEN "valid"
                  ELSE "invalid"

\* utils.reactivate_license: the result; license_obj.exp is a datetime or None,
\* never the string "Never", and strptime of either raises TypeError
U_reactivate_result(tbl, client_id) ==
    IF client_id \notin DOMAIN tbl THEN "not_found"
    ELSE IF tbl[client_id].license_type = "Premium" THEN "premium"
    ELSE "raise_TypeError"

\* LicenseViewSet.revoke: the response
V_revoke_result(tbl, pk) ==
    IF pk \notin DOMAIN tbl THEN "not_found"
    ELSE IF tbl[pk].status = "revoked" THEN "already_revoked"
    ELSE "revoked_ok"

\* LicenseViewSet.reactivate: the response
V_reactivate_result(tbl, pk) ==
    IF pk \notin DOMAIN tbl THEN "not_found"
    ELSE IF tbl[pk].status = "active" THEN "already_active"
    ELSE "reactivated"

\* the table after utils.revoke_license
U_revoke_table(tbl, c) ==
    IF c \in DOMAIN tbl THEN [tbl EXCEPT ![c].status = "revoked"] ELSE tbl

\* the table after LicenseViewSet.revoke
V_revoke_table(tbl, pk) ==
    IF V_revoke_result(tbl, pk) = "revoked_ok"
    THEN [tbl EXCEPT ![pk].status = "revoked"] ELSE tbl

\* the table after LicenseViewSet.reactivate
V_reactivate_table(tbl, pk) ==
    IF V_reactivate_result(tbl, pk) = "reactivated"
    THEN [tbl EXCEPT ![pk].status = "active"] ELSE tbl

\* utils.generate_license at time t: what it returns or raises
U_generate_result(tbl, c) ==
    IF LoadRsaKeysRaises(keys) THEN "raise_load_rsa_keys" ELSE "created"

\* the table after utils.generate_license at time t
U_generate_table(tbl, c, ty, exp, d, t) ==
    IF LoadRsaKeysRaises(keys) THEN tbl
    ELSE UpdateOrCreate(tbl, c,
             U_row(c, ty, Dt(t, 0), U_expiration_date(exp, d, Dt(t, 0))))

\* LicenseViewSet.create: the response, or what it raises
V_create_result(tbl, c) ==
    IF c \in DOMAIN tbl THEN "exists"
    ELSE IF LoadRsaKeysRaises(keys) THEN "raise_load_rsa_keys"
    ELSE "created"

\* the table after LicenseViewSet.create at time t
V_create_table(tbl, c, ty, exp, d, t) ==
    IF c \in DOMAIN tbl \/ LoadRsaKeysRaises(keys) THEN tbl
    ELSE (c :> U_row(c, ty, Dt(t, 0), V_expiration_date(exp, d, t))) @@ tbl

U_generate(c, ty, exp, d) ==
    /\ deploy = "django"
    /\ keys.running
    /\ db' = U_generate_table(db, c, ty, exp, d, now)
    /\ last' = IssueCall("utils", c, d, exp, U_generate_result(db, c), Was(db, c))
    /\ UNCHANGED <<deploy, now, tampered, keys, conc, enc>>

V_create(c, ty, exp, d) ==
    /\ deploy = "django"
    /\ keys.running
    /\ db' = V_create_table(db, c, ty, exp, d, now)
    /\ last' = IssueCall("views", c, d, exp, V_create_result(db, c), Was(db, c))
    /\ UNCHANGED <<deploy, now, tampered, keys, conc, enc>>

U_verify(c, s) ==
    /\ deploy = "django"
    /\ keys.running
    /\ last' = Call("verify", "utils", c, s, 0, U_verify_license(db, c, s, now),
                    Was(db, c), After(last, c))
    /\ UNCHANGED <<deploy, now, db, tampered, keys, conc, enc>>

U_revoke(c) ==
    /\ deploy = "django"
    /\ keys.running
    /\ db' = U_revoke_table(db, c)
    /\ last' = Call("revoke", "utils", c, Garbage, 0,
                    IF c \in DOMAIN db THEN "revoked_ok" ELSE "not_found",
                    Was(db, c), "")
    /\ UNCHANGED <<deploy, now, tampered, keys, conc, enc>>

U_reactivate(c, d) ==
    /\ deploy = "django"
    /\ keys.running
    /\ last' = Call("reactivate", "utils", c, Garbage, d, U_reactivate_result(db, c),
                    Was(db, c), "")
    /\ UNCHANGED <<deploy, now, db, tampered, keys, conc, enc>>

V_revoke(c) ==
    /\ deploy = "django"
    /\ keys.running
    /\ db' = V_revoke_table(db, c)
    /\ last' = Call("revoke", "views", c, Garbage, 0, V_revoke_result(db, c),
                    Was(db, c), "")
    /\ UNCHANGED <<deploy, now, tampered, keys, conc, enc>>

V_reactivate(c) ==
    /\ deploy = "django"
    /\ keys.running
    /\ db' = V_reactivate_table(db, c)
    /\ last' = Call("reactivate", "views", c, Garbage, 0, V_reactivate_result(db, c),
                    Was(db, c), "")
    /\ UNCHANGED <<deploy, now, tampered, keys, conc, enc>>

V_list ==
    /\ deploy = "django"
    /\ keys.running
    /\ last' = Call("list", "views", "", Garbage, 0, "rows", "", "")
    /\ UNCHANGED <<deploy, now, db, tampered, keys, conc, enc>>

---------------------------------------------------------------------------
(* Process start and stop *)

\* the keypair made by the next rsa.newkeys call, written to both files
NewKeys(k, in_memory) ==
    KeyState(k.gen + 1, k.gen + 1,
             IF in_memory THEN k.gen + 1 ELSE NoFile,
             IF in_memory THEN k.gen + 1 ELSE NoFile, TRUE, k.gen + 1)

\* import of licence.py: generate and write, or load; an error of load_pkcs1
\* is not caught and ends the process
S_start_keys(k) ==
    IF KeysMissing(k) THEN NewKeys(k, TRUE)
    ELSE IF LoadPkcs1Raises(k) THEN k
    ELSE [k EXCEPT !.mpriv = k.priv, !.mpub = k.pub, !.running = TRUE]

\* import of licenses/utils.py, generate_rsa_key_pair(): generate and write,
\* or load into locals; an error of the load is printed and the import goes on
U_start_keys(k) ==
    IF KeysMissing(k) THEN NewKeys(k, FALSE)
    ELSE [k EXCEPT !.running = TRUE]

S_start ==
    /\ deploy = "standalone"
    /\ ~keys.running
    /\ KeysMissing(keys) => keys.gen < MaxGen
    /\ keys' = S_start_keys(keys)
    /\ last' = Call("start", "licence", "", Garbage, 0,
                    IF KeysMissing(keys) THEN "generated"
                    ELSE IF LoadPkcs1Raises(keys) THEN "abort"
                    ELSE "loaded", "", "")
    /\ UNCHANGED <<deploy, now, db, tampered, conc, enc>>

U_start ==
    /\ deploy = "django"
    /\ ~keys.running
    /\ KeysMissing(keys) => keys.gen < MaxGen
    /\ keys' = U_start_keys(keys)
    /\ last' = Call("start", "utils", "", Garbage, 0,
                    IF KeysMissing(keys) THEN "generated"
                    ELSE IF LoadPkcs1Raises(keys) THEN "load_error_printed"
                    ELSE "loaded", "", "")
    /\ UNCHANGED <<deploy, now, db, tampered, conc, enc>>

\* the process ends; the key files and the table stay
Stop ==
    /\ keys.running
    /\ keys' = [keys EXCEPT !.mpriv = NoFile, !.mpub = NoFile, !.running = FALSE]
    /\ last' = Call("stop", "", "", Garbage, 0, "", "", "")
    /\ UNCHANGED <<deploy, now, db, tampered, conc, enc>>

\* a key file is damaged while the process is down
CorruptKeys(file) ==
    /\ ~keys.running
    /\ keys[file] > NoFile
    /\ keys' = [keys EXCEPT ![file] = Corrupt]
    /\ last' = Call("corrupt", "", "", Garbage, 0, file, "", "")
    /\ UNCHANGED <<deploy, now, db, tampered, conc, enc>>

---------------------------------------------------------------------------
(* Two requests in flight.  conc holds the table as it was when the two    *)
(* requests were submitted (base), the result set of the module-level      *)
(* sqlite cursor of licence.py (cursor) and the two requests (reqs).  A    *)
(* request runs statement by statement: pc is its position, obj the row    *)
(* it read or built, res its result, t the clock when it finished, and ov  *)
(* tells whether it took a step while the other request was part-way.      *)

Workers == {1, 2}

Req(op, impl, c, ty, d, sig) ==
    [op |-> op, impl |-> impl, c |-> c, ty |-> ty, d |-> d, sig |-> sig,
     pc |-> "queued", obj |-> <<>>, res |-> "", t |-> 0, ov |-> FALSE]

NoReq == [Req("", "", "", "", 0, Garbage) EXCEPT !.pc = "idle"]

ConcIdle == [base |-> <<>>, cursor |-> <<>>, reqs |-> <<NoReq, NoReq>>]

RoundIdle == \A w \in Workers : conc.reqs[w].pc = "idle"
RoundDone == \A w \in Workers : conc.reqs[w].pc = "done"

\* the other request is part-way through its handler
PartWay(w) == \E v \in Workers \ {w} : conc.reqs[v].pc \notin {"idle", "queued", "done"}

\* a server that hands every request to a thread of its own
MayHandle_Threaded(w) == TRUE

\* HTTPServer.serve_forever: one request is handled to its end before the
\* next is taken
MayHandle(w) == ~PartWay(w)

\* the rows a SELECT / objects.get on client_id finds
Rows(tbl, c) == IF c \in DOMAIN tbl THEN <<tbl[c]>> ELSE <<>>

\* the fetched rows as a table
AsTable(c, rows) == IF rows = <<>> THEN <<>> ELSE (c :> rows[1])

\* the request r at position pc, having read or built obj
At(w, r, pc, obj) ==
    [r EXCEPT !.pc = pc, !.obj = obj, !.ov = r.ov \/ PartWay(w)]

\* the request r finished with result res
Done(w, r, res) ==
    [r EXCEPT !.pc = "done", !.res = res, !.t = now, !.ov = r.ov \/ PartWay(w)]

ConcCall == Call("request", "", "", Garbage, 0, "", "", "")

\* licence.py revoke_license: the UPDATE and the commit
S_revoke_update(w) ==
    /\ deploy = "standalone"
    /\ keys.running
    /\ LET r == conc.reqs[w]
       IN  /\ r.op = "revoke" /\ r.pc = "queued"
           /\ MayHandle(w)
           /\ db' = S_revoke_table(db, r.c)
           /\ conc' = [conc EXCEPT !.reqs[w] = Done(w, r, "revoked_ok"),
                                   !.cursor = <<>>]
    /\ last' = ConcCall
    /\ UNCHANGED <<deploy, now, tampered, keys, enc>>

\* licence.py validate_license / reactivate_license: cursor.execute(SELECT ...)
S_select(w) ==
    /\ deploy = "standalone"
    /\ keys.running
    /\ LET r == conc.reqs[w]
       IN  /\ r.op \in {"verify", "reactivate"} /\ r.pc = "queued"
           /\ MayHandle(w)
           /\ conc' = [conc EXCEPT !.reqs[w] = At(w, r, "executed", <<>>),
                                   !.cursor = Rows(db, r.c)]
    /\ last' = ConcCall
    /\ UNCHANGED <<deploy, now, db, tampered, keys, enc>>

\* licence.py validate_license: cursor.fetchone() and the checks
S_validate_fetch(w) ==
    /\ deploy = "standalone"
    /\ keys.running
    /\ LET r == conc.reqs[w]
       IN  /\ r.op = "verify" /\ r.pc = "executed"
           /\ conc' = [conc EXCEPT
                  !.reqs[w] = Done(w, r, S_validate_license(AsTable(r.c, conc.cursor),
                                                          r.c, r.sig, now)),
                  !.cursor = <<>>]
    /\ last' = ConcCall
    /\ UNCHANGED <<deploy, now, db, tampered, keys, enc>>

\* licence.py reactivate_license: cursor.fetchone() and the checks
S_reactivate_fetch(w) ==
    /\ deploy = "standalone"
    /\ keys.running
    /\ LET r == conc.reqs[w]
           res == S_reactivate_result(AsTable(r.c, conc.cursor), r.c)
       IN  /\ r.op = "reactivate" /\ r.pc = "executed"
           /\ conc' = [conc EXCEPT
                  !.reqs[w] = IF res = "reactivated"
                              THEN At(w, r, "fetched", conc.cursor)
                              ELSE Done(w, r, res),
                  !.cursor = <<>>]
    /\ last' = ConcCall
    /\ UNCHANGED <<deploy, now, db, tampered, keys, enc>>

\* licence.py reactivate_license: the UPDATE of exp and status, and the commit
S_reactivate_update(w) ==
    /\ deploy = "standalone"
    /\ keys.running
    /\ LET r == conc.reqs[w]
       IN  /\ r.op = "reactivate" /\ r.pc = "fetched"
           /\ db' = IF r.c \in DOMAIN db
                    THEN [db EXCEPT ![r.c].exp = S_new_exp_str(r.obj[1].exp, r.d),
                                    ![r.c].status = "active"]
                    ELSE db
           /\ conc' = [conc EXCEPT !.reqs[w] = Done(w, r, "reactivated"),
                                   !.cursor = <<>>]
    /\ last' = ConcCall
    /\ UNCHANGED <<deploy, now, tampered, keys, enc>>

\* licence.py generate_license: the INSERT (IntegrityError caught) and the commit
S_generate_insert(w) ==
    /\ deploy = "standalone"
    /\ keys.running
    /\ LET r == conc.reqs[w]
           row == S_row(r.c, r.ty, Dt(now, 0), r.d)
       IN  /\ r.op = "issue" /\ r.pc = "queued"
           /\ MayHandle(w)
           /\ db' = IF r.c \in DOMAIN db THEN db ELSE (r.c :> row) @@ db
           /\ conc' = [conc EXCEPT
                  !.reqs[w] = Done(w, [r EXCEPT !.obj = <<row>>],
                                   IF r.c \in DOMAIN db THEN "exists" ELSE "created"),
                  !.cursor = <<>>]
    /\ last' = ConcCall
    /\ UNCHANGED <<deploy, now, tampered, keys, enc>>

\* utils.verify_license: load_rsa_keys() and License.objects.get
U_verify_get(w) ==
    /\ deploy = "django"
    /\ keys.running
    /\ LET r == conc.reqs[w]
       IN  /\ r.op = "verify" /\ r.impl = "utils" /\ r.pc = "queued"
           /\ conc' = [conc EXCEPT
                  !.reqs[w] = IF LoadRsaKeysRaises(keys) THEN Done(w, r, "failed")
                              ELSE At(w, r, "got", Rows(db, r.c))]
    /\ last' = ConcCall
    /\ UNCHANGED <<deploy, now, db, tampered, keys, enc>>

\* utils.verify_license: the checks on the object read
U_verify_check(w) ==
    /\ deploy = "django"
    /\ keys.running
    /\ LET r == conc.reqs[w]
       IN  /\ r.op = "verify" /\ r.impl = "utils" /\ r.pc = "got"
           /\ conc' = [conc EXCEPT
                  !.reqs[w] = Done(w, r, U_verify_license(AsTable(r.c, r.obj),
                                                          r.c, r.sig, now))]
    /\ last' = ConcCall
    /\ UNCHANGED <<deploy, now, db, tampered, keys, enc>>

\* utils.revoke_license: License.objects.get
U_revoke_get(w) ==
    /\ deploy = "django"
    /\ keys.running
    /\ LET r == conc.reqs[w]
       IN  /\ r.op = "revoke" /\ r.impl = "utils" /\ r.pc = "queued"
           /\ conc' = [conc EXCEPT
                  !.reqs[w] = IF r.c \in DOMAIN db THEN At(w, r, "got", Rows(db, r.c))
                              ELSE Done(w, r, "not_found")]
    /\ last' = ConcCall
    /\ UNCHANGED <<deploy, now, db, tampered, keys, enc>>

\* LicenseViewSet.revoke: License.objects.get and the status test
V_revoke_get(w) ==
    /\ deploy = "django"
    /\ keys.running
    /\ LET r == conc.reqs[w]
           res == V_revoke_result(db, r.c)
       IN  /\ r.op = "revoke" /\ r.impl = "views" /\ r.pc = "queued"
           /\ conc' = [conc EXCEPT
                  !.reqs[w] = IF res = "revoked_ok" THEN At(w, r, "got", Rows(db, r.c))
                              ELSE Done(w, r, res)]
    /\ last' = ConcCall
    /\ UNCHANGED <<deploy, now, db, tampered, keys, enc>>

\* utils.revoke_license / LicenseViewSet.revoke: license_obj.save() writes
\* every field of the object read, with status "revoked"
U_revoke_save(w) ==
    /\ deploy = "django"
    /\ keys.running
    /\ LET r == conc.reqs[w]
       IN  /\ r.op = "revoke" /\ r.pc = "got"
           /\ db' = (r.c :> [r.obj[1] EXCEPT !.status = "revoked"]) @@ db
           /\ conc' = [conc EXCEPT !.reqs[w] = Done(w, r, "revoked_ok")]
    /\ last' = ConcCall
    /\ UNCHANGED <<deploy, now, tampered, keys, enc>>

\* LicenseViewSet.reactivate: License.objects.get and the status test
V_reactivate_get(w) ==
    /\ deploy = "django"
    /\ keys.running
    /\ LET r == conc.reqs[w]
           res == V_reactivate_result(db, r.c)
       IN  /\ r.op = "reactivate" /\ r.impl = "views" /\ r.pc = "queued"
           /\ conc' = [conc EXCEPT
                  !.reqs[w] = IF res = "reactivated" THEN At(w, r, "got", Rows(db, r.c))
                              ELSE Done(w, r, res)]
    /\ last' = ConcCall
    /\ UNCHANGED <<deploy, now, db, tampered, keys, enc>>

\* LicenseViewSet.reactivate: license_obj.save() writes every field of the
\* object read, with status "active"
V_reactivate_save(w) ==
    /\ deploy = "django"
    /\ keys.running
    /\ LET r == conc.reqs[w]
       IN  /\ r.op = "reactivate" /\ r.impl = "views" /\ r.pc = "got"
           /\ db' = (r.c :> [r.obj[1] EXCEPT !.status = "active"]) @@ db
           /\ conc' = [conc EXCEPT !.reqs[w] = Done(w, r, "reactivated")]
    /\ last' = ConcCall
    /\ UNCHANGED <<deploy, now, tampered, keys, enc>>

\* utils.reactivate_license: License.objects.get, then an error result or the
\* TypeError of strptime; nothing is written
U_reactivate_get(w) ==
    /\ deploy = "django"
    /\ keys.running
    /\ LET r == conc.reqs[w]
       IN  /\ r.op = "reactivate" /\ r.impl = "utils" /\ r.pc = "queued"
           /\ conc' = [conc EXCEPT
                  !.reqs[w] = Done(w, r, U_reactivate_result(db, r.c))]
    /\ last' = ConcCall
    /\ UNCHANGED <<deploy, now, db, tampered, keys, enc>>

\* utils.generate_license: update_or_create, which creates the row or, when
\* the row is there (also when the other request has just created it), updates it
U_generate_upsert(w) ==
    /\ deploy = "django"
    /\ keys.running
    /\ LET r == conc.reqs[w]
           row == U_row(r.c, r.ty, Dt(now, 0),
                        U_expiration_date(NoExp, r.d, Dt(now, 0)))
       IN  /\ r.op = "issue" /\ r.impl = "utils" /\ r.pc = "queued"
           /\ db' = IF LoadRsaKeysRaises(keys) THEN db
                    ELSE UpdateOrCreate(db, r.c, row)
           /\ conc' = [conc EXCEPT
                  !.reqs[w] = IF LoadRsaKeysRaises(keys)
                              THEN Done(w, r, "raise_load_rsa_keys")
                              ELSE Done(w, [r EXCEPT !.obj = <<row>>], "created")]
    /\ last' = ConcCall
    /\ UNCHANGED <<deploy, now, tampered, keys, enc>>

\* LicenseViewSet.create: License.objects.filter(client_id=...).exists()
V_create_exists(w) ==
    /\ deploy = "django"
    /\ keys.running
    /\ LET r == conc.reqs[w]
       IN  /\ r.op = "issue" /\ r.impl = "views" /\ r.pc = "queued"
           /\ conc' = [conc EXCEPT
                  !.reqs[w] = IF r.c \in DOMAIN db THEN Done(w, r, "exists")
                              ELSE At(w, r, "checked",
                                      <<[v |-> V_expiration_date(NoExp, r.d, now)]>>)]
    /\ last' = ConcCall
    /\ UNCHANGED <<deploy, now, db, tampered, keys, enc>>

\* LicenseViewSet.create: load_rsa_keys(), the signing and
\* License.objects.create; the unique client_id column refuses a second row
\* with IntegrityError, which nothing catches
V_create_insert(w) ==
    /\ deploy = "django"
    /\ keys.running
    /\ LET r == conc.reqs[w]
           row == U_row(r.c, r.ty, Dt(now, 0), r.obj[1].v)
       IN  /\ r.op = "issue" /\ r.impl = "views" /\ r.pc = "checked"
           /\ db' = IF LoadRsaKeysRaises(keys) \/ r.c \in DOMAIN db THEN db
                    ELSE (r.c :> row) @@ db
           /\ conc' = [conc EXCEPT
                  !.reqs[w] = IF LoadRsaKeysRaises(keys)
                              THEN Done(w, r, "raise_load_rsa_keys")
                              ELSE IF r.c \in DOMAIN db
                              THEN Done(w, r, "raise_IntegrityError")
                              ELSE Done(w, [r EXCEPT !.obj = <<row>>], "created")]
    /\ last' = ConcCall
    /\ UNCHANGED <<deploy, now, tampered, keys, enc>>

\* the requests two callers may send at the same time
Mutations(c) ==
    IF deploy = "standalone"
    THEN {Req("revoke", "licence", c, "", 0, Garbage)}
             \cup {Req("reactivate", "licence", c, "", d, Garbage) : d \in Durations}
    ELSE {Req("revoke", impl, c, "", 0, Garbage) : impl \in {"utils", "views"}}
             \cup {Req("reactivate", "views", c, "", 0, Garbage)}
             \cup {Req("reactivate", "utils", c, "", d, Garbage) : d \in Durations}

Verifications(c) ==
    {Req("verify", IF deploy = "standalone" THEN "licence" ELSE "utils", c, "", 0, s) :
         s \in {db[x].signature : x \in DOMAIN db \cap {c}} \cup {Other}}

Issues(c) ==
    {Req("issue", impl, c, ty, d, Garbage) :
         impl \in (IF deploy = "standalone" THEN {"licence"} ELSE {"utils", "views"}),
         ty \in LicenseTypes, d \in Durations}

\* the row's exp column holds a timestamp text
HasExpiryText(row) == row.exp.k = "ts"

\* the reactivations of a round keep expires_at within the calendar of the model
WithinCalendar(r1, r2) ==
    (r1.c \in DOMAIN db /\ HasExpiryText(db[r1.c]))
        => Strptime(db[r1.c].exp).v + (r1.d + r2.d) * Day <= MaxExp

\* two callers send r1 and r2 for the same client at the same time
Submit(r1, r2) ==
    /\ keys.running
    /\ RoundIdle
    /\ WithinCalendar(r1, r2)
    /\ conc' = [base |-> db, cursor |-> <<>>, reqs |-> <<r1, r2>>]
    /\ last' = ConcCall
    /\ UNCHANGED <<deploy, now, db, tampered, keys, enc>>

\* both responses were delivered
Finish ==
    /\ RoundDone
    /\ conc' = ConcIdle
    /\ last' = ConcCall
    /\ UNCHANGED <<deploy, now, db, tampered, keys, enc>>

---------------------------------------------------------------------------
(* The encoding on its own: license_data built with its keys inserted in   *)
(* some order and encoded; enc keeps how many encodings were made (n, up   *)
(* to 2), the dict of the latest one, and the bytes of the first and of    *)
(* the latest.                                                             *)

KeyOrders == {o \in [1..4 -> Keys] : {o[i] : i \in 1..4} = Keys}

EncIdle == [n |-> 0, d |-> Dict(<<>>, "", "", Never, Never),
            first |-> NoMessage, latest |-> NoMessage]

\* the texts a timestamp field may hold
EncTexts == {Never, Ts(0), Ts(1)}

\* the same four values as the dict encoded before
SameValues(d, e) ==
    /\ d.client_id = e.client_id
    /\ d.license_type = e.license_type
    /\ d.issued_at = e.issued_at
    /\ d.exp = e.exp

Encoded(d, bytes) ==
    [n |-> IF enc.n = 0 THEN 1 ELSE 2, d |-> d,
     first |-> IF enc.n = 0 THEN bytes ELSE enc.first, latest |-> bytes]

\* licence.py: json.dumps(license_data)
S_encode(d) ==
    /\ deploy = "standalone"
    /\ enc.n > 0 => SameValues(d, enc.d)
    /\ enc' = Encoded(d, Dumps(d))
    /\ UNCHANGED <<deploy, now, db, tampered, last, keys, conc>>

\* utils.py, views.py: json.dumps(license_data, separators=(',', ':'), sort_keys=True)
U_encode(d) ==
    /\ deploy = "django"
    /\ enc.n > 0 => SameValues(d, enc.d)
    /\ enc' = Encoded(d, DumpsSorted(d))
    /\ UNCHANGED <<deploy, now, db, tampered, last, keys, conc>>

---------------------------------------------------------------------------
(* The clock, and the specification *)

Tick ==
    /\ now < MaxTime
    /\ now' = now + 1
    /\ last' = Call("tick", "", "", Garbage, 0, "", "", "")
    /\ UNCHANGED <<deploy, db, tampered, keys, conc, enc>>

\* Someone with access to the storage alters one signable field of a row that
\* verifies, and leaves the signature alone (at most once in a behaviour).
TamperValues(field) ==
    IF field = "license_type" THEN LicenseTypes
    ELSE IF deploy = "standalone"
         THEN {Ts(x) : x \in 0..(MaxExp \div TicksPerSec)}
                  \cup (IF field = "exp" THEN {Never} ELSE {})
         ELSE {Dt(v, 0) : v \in 0..MaxExp}
                  \cup (IF field = "exp" THEN {None} ELSE {})

Verifies(tbl, c, t) ==
    /\ c \in DOMAIN tbl
    /\ IF deploy = "standalone"
       THEN S_validate_license(tbl, c, tbl[c].signature, t) = "valid"
       ELSE U_verify_license(tbl, c, tbl[c].signature, t) = "valid"

Tamper(c, field, value) ==
    /\ tampered = {}
    /\ Verifies(db, c, now)
    /\ value # db[c][field]
    /\ db' = [db EXCEPT ![c][field] = value]
    /\ tampered' = {c}
    /\ last' = Call("tamper", "", c, Garbage, 0, field, Was(db, c), "")
    /\ UNCHANGED <<deploy, now, keys, conc, enc>>

Init ==
    /\ deploy \in {"standalone", "django"}
    /\ now = 0
    /\ db = <<>>
    /\ tampered = {}
    /\ last = Call("init", "", "", Garbage, 0, "", "", "")
    /\ keys = KeyState(NoFile, NoFile, NoFile, NoFile, FALSE, 0)
    /\ conc = ConcIdle
    /\ enc = EncIdle

Next ==
    \/ \E c \in Clients, ty \in LicenseTypes, d \in Durations : S_generate(c, ty, d)
    \/ \E c \in Clients : S_revoke(c)
    \/ \E c \in Clients, s \in Presented(db) : S_validate(c, s)
    \/ \E c \in Clients, d \in Durations : S_reactivate(c, d)
    \/ S_list
    \/ \E c \in Clients, ty \in LicenseTypes, exp \in ExpArgs, d \in DurationArgs :
           U_generate(c, ty, exp, d)
    \/ \E c \in Clients, ty \in LicenseTypes, exp \in ExpArgs, d \in DurationArgs :
           V_create(c, ty, exp, d)
    \/ \E c \in Clients, s \in Presented(db) : U_verify(c, s)
    \/ \E c \in Clients : U_revoke(c)
    \/ \E c \in Clients, d \in Durations : U_reactivate(c, d)
    \/ \E c \in Clients : V_revoke(c)
    \/ \E c \in Clients : V_reactivate(c)
    \/ V_list
    \/ S_start
    \/ U_start
    \/ Stop
    \/ Tick

Spec == Init /\ [][Next]_vars

NextTamper ==
    \/ Next
    \/ \E c \in Clients, field \in {"license_type", "issued_at", "exp"} :
           \E value \in TamperValues(field) : Tamper(c, field, value)

SpecTamper == Init /\ [][NextTamper]_vars

NextFault ==
    \/ Next
    \/ \E file \in {"priv", "pub"} : CorruptKeys(file)

SpecFault == Init /\ [][NextFault]_vars

\* the operations one at a time while no request is in flight, and rounds of
\* two requests for one client sent together
NextConc ==
    \/ S_start
    \/ U_start
    \/ Tick
    \/ /\ RoundIdle
       /\ \/ \E c \in Clients, ty \in LicenseTypes, d \in Durations : S_generate(c, ty, d)
          \/ \E c \in Clients, ty \in LicenseTypes, d \in Durations :
                 U_generate(c, ty, NoExp, d)
          \/ \E c \in Clients : S_revoke(c)
          \/ \E c \in Clients : U_revoke(c)
    \/ \E c \in Clients :
           \/ \E r1 \in Mutations(c), r2 \in Mutations(c) : Submit(r1, r2)
           \/ \E r1 \in Verifications(c), r2 \in Mutations(c) : Submit(r1, r2)
           \/ /\ c \notin DOMAIN db
              /\ \E r1 \in Issues(c), r2 \in Issues(c) : Submit(r1, r2)
    \/ \E w \in Workers :
           \/ S_revoke_update(w)
           \/ S_select(w)
           \/ S_validate_fetch(w)
           \/ S_reactivate_fetch(w)
           \/ S_reactivate_update(w)
           \/ S_generate_insert(w)
           \/ U_verify_get(w)
           \/ U_verify_check(w)
           \/ U_revoke_get(w)
           \/ V_revoke_get(w)
           \/ U_revoke_save(w)
           \/ V_reactivate_get(w)
           \/ V_reactivate_save(w)
           \/ U_reactivate_get(w)
           \/ U_generate_upsert(w)
           \/ V_create_exists(w)
           \/ V_create_insert(w)
    \/ Finish

SpecConc == Init /\ [][NextConc]_vars

\* two clients: issue and revoke calls for either of them
TwoClients == {"c1", "c2"}

NextTwo ==
    \/ S_start
    \/ U_start
    \/ Tick
    \/ \E c \in TwoClients, ty \in LicenseTypes, d \in Durations : S_generate(c, ty, d)
    \/ \E c \in TwoClients, ty \in LicenseTypes, d \in Durations :
           U_generate(c, ty, NoExp, d)
    \/ \E c \in TwoClients, ty \in LicenseTypes, d \in Durations :
           V_create(c, ty, NoExp, d)
    \/ \E c \in TwoClients : S_revoke(c)
    \/ \E c \in TwoClients : U_revoke(c)
    \/ \E c \in TwoClients : V_revoke(c)

SpecTwo == Init /\ [][NextTwo]_vars

\* the encoding applied to dicts of every insertion order
NextEncode ==
    \E order \in KeyOrders, c \in Clients, ty \in LicenseTypes,
       issued_at \in EncTexts \ {Never}, exp \in EncTexts :
        \/ S_encode(Dict(order, c, ty, issued_at, exp))
        \/ U_encode(Dict(order, c, ty, issued_at, exp))

SpecEncode == Init /\ [][NextEncode]_vars

\* the standalone server driven through its HTTP interface
Paths == {"/", "/validate_license"}
FormActions == {"generate", "revoke", "reactivate", "validate", ""}

Forms ==
    {Body("form", a, c, ty, d, d, Garbage) :
        a \in FormActions, c \in Clients, ty \in LicenseTypes, d \in Durations}

JsonBodies(tbl) ==
    {Body("json", "", c, "", 0, 0, s) : c \in Clients, s \in Presented(tbl)}

NextHttp ==
    \/ S_start
    \/ Stop
    \/ Tick
    \/ \E path \in Paths, body \in Forms \cup JsonBodies(db) : S_do_POST(path, body)

SpecHttp == Init /\ [][NextHttp]_vars

---------------------------------------------------------------------------
(* Vocabulary of the properties *)

\* the row's expires_at is set
HasExpiry(row) == row.exp.k \in {"ts", "dt"}

\* the instant (ticks) of the row's expires_at
ExpiresAt(row) == IF row.exp.k = "ts" THEN Strptime(row.exp).v ELSE row.exp.v

\* the last call was a verification of a client that has a row
Verified == last.op = "verify" /\ last.c \in DOMAIN db

\* the table after the call r runs alone on the table tbl
Effect(r, tbl) ==
    IF r.op = "revoke"
    THEN (IF r.impl = "licence" THEN S_revoke_table(tbl, r.c)
          ELSE IF r.impl = "utils" THEN U_revoke_table(tbl, r.c)
          ELSE V_revoke_table(tbl, r.c))
    ELSE IF r.op = "reactivate"
    THEN (IF r.impl = "licence" THEN S_reactivate_table(tbl, r.c, r.d)
          ELSE IF r.impl = "views" THEN V_reactivate_table(tbl, r.c)
          ELSE tbl)
    ELSE tbl

\* the result of the verification r run alone on the table tbl at r's time
VerifyResult(r, tbl) ==
    IF r.impl = "licence" THEN S_validate_license(tbl, r.c, r.sig, r.t)
    ELSE U_verify_license(tbl, r.c, r.sig, r.t)

\* the two requests of a finished round
R1 == conc.reqs[1]
R2 == conc.reqs[2]

\* the encoding of the current signable fields of client c's row, as the
\* deployment's verification rebuilds it
CurrentPayload(c, row) ==
    IF deploy = "standalone"
    THEN JsonDumps(c, row.license_type, row.issued_at, row.exp)
    ELSE JsonDumpsSorted(c, row.license_type, Strftime(row.issued_at),
                         IF row.exp # None THEN Strftime(row.exp) ELSE Never)

\* the instant (ticks) of the row's issued_at
IssuedAt(row) == IF row.issued_at.k = "ts" THEN Strptime(row.issued_at).v
                 ELSE row.issued_at.v

\* the time t as the deployment's store keeps it
StoredTime(t) == IF deploy = "standalone" THEN Strftime(Dt(t, 0)) ELSE Dt(t, 0)

\* a refusal of a reactivation that does not apply
NotApplicable == {"premium", "no_expiration", "already_active"}

\* the error results of a verification whose signature check did not pass:
\* "Signature mismatch.", "Invalid signature or license tampered with.",
\* "License verification failed: ..."
InvalidSignature == {"mismatch", "invalid", "failed"}

\* the presented text does not decode to the bytes of the stored signature
WrongSignature(s, row) == FromHexRaises(s) \/ FromHex(s) # FromHex(row.signature)

---------------------------------------------------------------------------
(* Properties *)

\* C1: a verification that directly follows a successful issue of the same
\* client, with the signature of the issued row, returns success.
C1_RoundTrip ==
    (Verified /\ last.after = "issued" /\ last.sig = db[last.c].signature)
        => last.res = "valid"

\* C2: after a revoked non-Premium row is reactivated with d > 0, a verification
\* with the signature produced at issuance returns success while the expiry is
\* still in the future.
C2_VerifyAfterReactivate ==
    (/\ Verified
     /\ last.after = "reactivated"
     /\ last.sig = db[last.c].signature
     /\ db[last.c].license_type # "Premium"
     /\ HasExpiry(db[last.c])
     /\ now <= ExpiresAt(db[last.c]))
        => last.res = "valid"

\* C3: a reactivation of a non-Premium row whose expires_at is set succeeds,
\* whatever the row's status, moves expires_at to exactly its prior value plus
\* d days and sets the status to active.
C3_ReactivateExtends ==
    [][(/\ last'.op = "reactivate"
        /\ last'.c \in DOMAIN db
        /\ db[last'.c].license_type # "Premium"
        /\ HasExpiry(db[last'.c]))
           => (/\ last'.res = "reactivated"
               /\ HasExpiry(db'[last'.c])
               /\ ExpiresAt(db'[last'.c]) = ExpiresAt(db[last'.c]) + last'.d * Day
               /\ db'[last'.c].status = "active")]_vars

\* C4: for an active row that has not expired, a verification with any signature
\* other than the stored one returns an error, and so does a verification with
\* the stored signature after a signable field of the row was altered.
C4_TamperEvident ==
    (/\ Verified
     /\ db[last.c].status = "active"
     /\ ~(db[last.c].license_type # "Premium" /\ HasExpiry(db[last.c])
            /\ now > ExpiresAt(db[last.c]))
     /\ \/ last.sig # db[last.c].signature
        \/ last.after = "tampered")
        => last.res # "valid"

\* C5: an issue for a client that already has a row fails with the duplicate
\* error and leaves the row as it was.
C5_DuplicateIssue ==
    [][(last'.op = "issue" /\ last'.c \in DOMAIN db)
           => (last'.res = "exists" /\ db' = db)]_vars

\* C6: a verification of a revoked row returns the revoked error, for every
\* signature presented and at every time.
C6_RevokedFirst ==
    (Verified /\ db[last.c].status = "revoked") => last.res = "revoked"

C6_Witness ==
    /\ Verified
    /\ db[last.c].status = "revoked"
    /\ db[last.c].license_type # "Premium"
    /\ HasExpiry(db[last.c])
    /\ now > ExpiresAt(db[last.c])
    /\ last.sig # db[last.c].signature
    /\ last.res = "revoked"

\* C7: for a row that is not revoked, not Premium and has expires_at set, a
\* verification with the stored signature returns the expired error exactly when
\* now is later than expires_at, and success otherwise.
C7_ExpirationBoundary ==
    (/\ Verified
     /\ db[last.c].status # "revoked"
     /\ db[last.c].license_type # "Premium"
     /\ HasExpiry(db[last.c])
     /\ last.sig = db[last.c].signature)
        => (/\ (last.res = "expired") <=> (now > ExpiresAt(db[last.c]))
            /\ (now <= ExpiresAt(db[last.c])) => last.res = "valid")

\* C8: every stored Premium row has expires_at unset.
C8_PremiumNeverExpires ==
    \A c \in DOMAIN db : db[c].license_type = "Premium" => ~HasExpiry(db[c])

\* C9: a verification of a Premium row never returns the expired error, whatever
\* is stored in its expires_at.
C9_PremiumNotExpired ==
    (Verified /\ db[last.c].license_type = "Premium") => last.res # "expired"

C9_Witness ==
    /\ Verified
    /\ db[last.c].license_type = "Premium"
    /\ HasExpiry(db[last.c])
    /\ now > ExpiresAt(db[last.c])
    /\ last.res = "valid"

\* C10: a reactivation of a Premium row, active or revoked, is refused as not
\* applicable and leaves the row's status and expires_at as they were.
C10_PremiumNotReactivated ==
    [][(/\ last'.op = "reactivate"
        /\ last'.c \in DOMAIN db
        /\ db[last'.c].license_type = "Premium")
           => (/\ last'.res \in NotApplicable
               /\ db'[last'.c].status = db[last'.c].status
               /\ db'[last'.c].exp = db[last'.c].exp)]_vars

\* C11: a reactivation (licence.py, utils.py) of a non-Premium row whose
\* expires_at is unset returns a not-applicable error as a value, raising
\* nothing, and leaves the table as it was.
C11_ReactivateNoExpiry ==
    [][(/\ last'.op = "reactivate"
        /\ last'.impl \in {"licence", "utils"}
        /\ last'.c \in DOMAIN db
        /\ db[last'.c].license_type # "Premium"
        /\ ~HasExpiry(db[last'.c]))
           => (last'.res \in NotApplicable /\ db' = db)]_vars

\* C12: a revocation or a reactivation of a client that has no row returns the
\* not-found error and changes nothing.
C12_AbsentClient ==
    [][(last'.op \in {"revoke", "reactivate"} /\ last'.c \notin DOMAIN db)
           => (last'.res = "not_found" /\ db' = db)]_vars

\* C13: no step changes the issued_at of an existing row, and only a
\* reactivation changes its expires_at.
C13_IssuedAtFrozen ==
    [][\A c \in DOMAIN db \cap DOMAIN db' :
           /\ db'[c].issued_at = db[c].issued_at
           /\ db'[c].exp # db[c].exp => last'.op = "reactivate"]_vars

\* C14: the status of an existing row changes only in a revocation, to revoked,
\* or in a reactivation, to active.
C14_StatusSteps ==
    [][\A c \in DOMAIN db \cap DOMAIN db' :
           db'[c].status # db[c].status
               => \/ last'.op = "revoke" /\ db'[c].status = "revoked"
                  \/ last'.op = "reactivate" /\ db'[c].status = "active"]_vars

\* C15: for an active row that has not expired, a verification with a wrong
\* signature text (another value, odd length, non-hex, empty) raises nothing
\* and returns an error result of the invalid-signature kind.
C15_VerifyNeverRaises ==
    (/\ Verified
     /\ db[last.c].status = "active"
     /\ ~(db[last.c].license_type # "Premium" /\ HasExpiry(db[last.c])
            /\ now > ExpiresAt(db[last.c]))
     /\ WrongSignature(last.sig, db[last.c]))
        => last.res \in InvalidSignature

C15_Witness ==
    /\ Verified
    /\ last.impl = "utils"
    /\ db[last.c].status = "active"
    /\ db[last.c].license_type # "Premium"
    /\ HasExpiry(db[last.c])
    /\ now <= ExpiresAt(db[last.c])
    /\ last.sig = OddLength
    /\ last.res = "failed"

\* C19: over any sequence of process starts and stops rsa.newkeys runs at most
\* once, the key files keep the keypair it made, and every stored signature
\* was made with the keypair the running process verifies with.
C19_KeysGeneratedOnce ==
    /\ keys.gen <= 1
    /\ keys.gen = 1 => (keys.priv = 1 /\ keys.pub = 1)
    /\ keys.running =>
           \A c \in DOMAIN db : FromHex(db[c].signature).key = public_key

C19_Witness ==
    /\ last.op = "start"
    /\ last.res = "loaded"
    /\ keys.running
    /\ \E c \in DOMAIN db : Verifies(db, c, now)

\* C20: a process whose key files are damaged is never up (its start aborted),
\* and every stored row carries a signature made with a generated private key.
C20_CorruptKeysAbort ==
    /\ keys.running => ~LoadPkcs1Raises(keys)
    /\ \A c \in DOMAIN db : FromHex(db[c].signature).key \in 1..keys.gen

\* C16: when two requests among Revoke and Reactivate for one client, sent
\* together, have both finished, the table is what one of the two serial
\* orders leaves, and two reactivations (licence.py, utils.py) of a non-Premium
\* row whose expires_at is set have moved it by d1 + d2 days.
C16_MutationsSerialize ==
    (/\ RoundDone
     /\ R1.op \in {"revoke", "reactivate"}
     /\ R2.op \in {"revoke", "reactivate"})
        => /\ db \in {Effect(R2, Effect(R1, conc.base)),
                      Effect(R1, Effect(R2, conc.base))}
           /\ (/\ R1.op = "reactivate" /\ R1.impl \in {"licence", "utils"}
               /\ R2.op = "reactivate" /\ R2.impl \in {"licence", "utils"}
               /\ R1.c \in DOMAIN conc.base
               /\ conc.base[R1.c].license_type # "Premium"
               /\ HasExpiry(conc.base[R1.c]))
                  => ExpiresAt(db[R1.c])
                         = ExpiresAt(conc.base[R1.c]) + (R1.d + R2.d) * Day

\* C17: when two issue requests for one client that had no row, sent together,
\* have both finished, one returned the created result, the other the
\* duplicate error, and the stored row is the one the successful request built.
C17_ConcurrentIssue ==
    (/\ RoundDone
     /\ R1.op = "issue"
     /\ R2.op = "issue"
     /\ R1.c \notin DOMAIN conc.base)
        => \/ R1.res = "created" /\ R2.res = "exists" /\ db[R1.c] = R1.obj[1]
           \/ R2.res = "created" /\ R1.res = "exists" /\ db[R2.c] = R2.obj[1]

\* C18: a verification sent together with a revocation or a reactivation of
\* the same client returns what it returns on the table as it was before the
\* mutation or on the table as the mutation leaves it.
C18_VerifySnapshot ==
    (/\ RoundDone
     /\ R1.op = "verify"
     /\ R2.op \in {"revoke", "reactivate"})
        => R1.res \in {VerifyResult(R1, conc.base),
                       VerifyResult(R1, Effect(R2, conc.base))}

C18_Witness ==
    /\ RoundDone
    /\ R1.op = "verify"
    /\ R2.op = "revoke"
    /\ R1.ov
    /\ R1.c \in DOMAIN conc.base
    /\ conc.base[R1.c].status = "active"
    /\ db[R1.c].status = "revoked"
    /\ R1.res = "valid"

C22_SignatureCoversFields ==
    \A c \in DOMAIN db :
        FromHex(db[c].signature) = RsaSign(CurrentPayload(c, db[c]), keys.priv)

\* C23: an issue for a client without a row that stores a non-Premium row
\* stores it active with issued_at the time of the call; with no exp argument
\* and duration_days d its expires_at is issued_at plus d days, for d = 0 too,
\* and with an exp argument its expires_at is that instant.
C23_IssueExpiry ==
    [][(last'.op = "issue" /\ last'.c \notin DOMAIN db)
           => /\ last'.c \in DOMAIN db'
              /\ db'[last'.c].license_type # "Premium"
                     => /\ db'[last'.c].status = "active"
                        /\ db'[last'.c].issued_at = StoredTime(now)
                        /\ (last'.exp = NoExp /\ last'.d \in Durations)
                               => /\ HasExpiry(db'[last'.c])
                                  /\ ExpiresAt(db'[last'.c])
                                         = IssuedAt(db'[last'.c]) + last'.d * Day
                        /\ last'.exp # NoExp
                               => /\ HasExpiry(db'[last'.c])
                                  /\ ExpiresAt(db'[last'.c])
                                         = FromIsoFormat(last'.exp).v]_vars

\* C24: every step leaves every row with status active or revoked, and an
\* active row, also one past its expires_at, stays active in every step but
\* a revocation.
C24_StatusValues ==
    [][\A c \in DOMAIN db' :
           /\ db'[c].status \in {"active", "revoked"}
           /\ (c \in DOMAIN db /\ db[c].status = "active" /\ db'[c].status # "active")
                  => last'.op = "revoke"]_vars

C24_Witness ==
    /\ Verified
    /\ last.res = "expired"
    /\ HasExpiry(db[last.c])
    /\ now > ExpiresAt(db[last.c])
    /\ db[last.c].status = "active"

\* C25: a revocation of a client that has a row leaves the table as it was
\* but for that row's status, which is revoked: the row's other fields and
\* the rows of the other clients are unchanged, and a revoked row is left
\* exactly as it was.
C25_RevokeFrame ==
    [][(last'.op = "revoke" /\ last'.c \in DOMAIN db)
           => db' = [db EXCEPT ![last'.c].status = "revoked"]]_vars

C25_Witness ==
    /\ last.op = "revoke"
    /\ last.was = "revoked"
    /\ last.c \in DOMAIN db
    /\ \E c \in DOMAIN db \ {last.c} : db[c].status = "active"

\* C26: after an issue that stored a row, the issued_at and expires_at texts
\* in the signed payload are the texts that a verification renders from the
\* stored row.
C26_TimestampTexts ==
    [][(last'.op = "issue" /\ last'.res = "created")
           => LET row == db'[last'.c]
                  signed == FromHex(row.signature).msg
                  rendered == CurrentPayload(last'.c, row)
              IN  /\ signed.issued_at = rendered.issued_at
                  /\ signed.exp = rendered.exp]_vars

\* C27: in every state of the running Django project, for every client,
\* license type, exp and duration_days, LicenseViewSet.create and
\* utils.generate_license called there leave the same table and take the
\* same accept/reject decision.
C27_IssuePathsAgree ==
    (deploy = "django" /\ keys.running)
        => \A c \in Clients, ty \in LicenseTypes, exp \in ExpArgs, d \in DurationArgs :
               /\ V_create_table(db, c, ty, exp, d, now)
                      = U_generate_table(db, c, ty, exp, d, now)
               /\ (V_create_result(db, c) = "created")
                      <=> (U_generate_result(db, c) = "created")

\* C28: a verification of a revoked row returns the revoked error, and a
\* revoked row stays revoked in every step but a reactivation of its client
\* that succeeded; in particular an issue for the client leaves it revoked.
C28_RevokedUntilReactivate ==
    [][\A c \in DOMAIN db :
           db[c].status = "revoked"
               => /\ (last'.op = "verify" /\ last'.c = c) => last'.res = "revoked"
                  /\ ~(last'.op = "reactivate" /\ last'.c = c /\ last'.res = "reactivated")
                         => (c \in DOMAIN db' /\ db'[c].status = "revoked")]_vars

\* C29: a POST to /validate_license with a JSON body holding client_id and
\* signature is answered with validate_license's result for the two values,
\* and a POST whose action is none of generate, revoke and reactivate leaves
\* the table as it was.
C29_PostRouting ==
    [][/\ (last'.path = "/validate_license" /\ last'.body.kind = "json")
           => last'.res = S_validate_license(db, last'.body.client_id,
                                             last'.body.signature, now)
       /\ (last'.path # "" /\ last'.body.action
                                  \notin {"generate", "revoke", "reactivate"})
           => db' = db]_vars

====
